---- MODULE Spec2Model ----
(***************************************************************************)
(* Image upload / association workflow of the business-listing backend.    *)
(*                                                                         *)
(* Modelled: the two upload routes of src/controllers/uploadController.js  *)
(* (with the multer middleware in front of them and the Express global     *)
(* error handler behind it), the service functions of                      *)
(* src/services/supabaseService.js they call, and the SQL functions of the *)
(* business schema.  The Record Store is the `business` table, the Blob    *)
(* Store is the `business-images` bucket.                                  *)
(*                                                                         *)
(* Strings are sequences of tokens: a storage path userId/businessId/x.ext *)
(* is <<userId, businessId, x, ext>>, and String.prototype.includes and    *)
(* SQL LIKE '%m%' are "some token is m".  A token equal to the bucket name *)
(* stands for any piece of text that contains the bucket name.             *)
(*                                                                         *)
(* Every request is a process: it is suspended at each await of the        *)
(* handler, and the code between two awaits is one step.                   *)
(***************************************************************************)
EXTENDS Integers, Sequences, FiniteSets, TLC

\* ------------------------------------------------------------ bounds
\* requests received in a run; all of them may be in flight at once, and
\* the s-th request draws the fresh uuidv4 number s
MaxReqs == 2
\* business rows ever inserted (ids are never reused)
MaxBiz == 1

\* ------------------------------------------------------------ inputs
Users == {"u1", "u2"}

BizId(n) == "b" \o ToString(n)

BizIds == {BizId(n) : n \in 1..MaxBiz}

\* a :businessId that is not a UUID
MalformedId == "not-a-uuid"

\* business_id absent from the body of POST /api/upload-image
NoBusinessId == "undefined"

\* this.BUSINESS_IMAGES_BUCKET
BUSINESS_IMAGES_BUCKET == "business-images"

\* limits.fileSize of the multer instance
fileSize == 5 * 1024 * 1024

\* mime types as <<type, subtype>>
Mimes == {<<"image", "jpeg">>, <<"image", "bmp">>, <<"text", "plain">>}

Sizes == {fileSize, fileSize + 1}

\* what originalname.split('.').pop() can yield: an ordinary extension, or
\* text that contains the bucket name (originalname "x.business-images")
Exts == {"jpg", BUSINESS_IMAGES_BUCKET}

NoFile == [present |-> FALSE, mimetype |-> <<"", "">>, size |-> 0]

\* req.file; the extension of its originalname is drawn where the handler
\* reads it
Files == {NoFile} \cup
         {[present |-> TRUE, mimetype |-> m, size |-> z] :
            m \in Mimes, z \in Sizes}

\* req.body.rating, a number counted in ten-thousandths (50000 is 5.0), a
\* JSON value that is not a number, or absent
NoRating == [type |-> "undefined", value |-> 0]

Ratings ==
  {NoRating, [type |-> "string", value |-> 50000]} \cup
  {[type |-> "number", value |-> v] : v \in {0 - 1, 0, 49951, 50000, 50001}}

\* ------------------------------------------------------------ state
VARIABLES
  business,      \* the business table: id -> row, for the rows that exist
  nextBiz,       \* number of rows inserted so far
  blobs,         \* the bucket: the set of object paths stored
  rpcInstalled,  \* the add_image_to_business SQL function is deployed
  reqs,          \* the requests received: each one's position and locals
  lastRemove,    \* outcome of the latest removeImageFromBusiness call
  lastCall,      \* the latest request to a business route and its response
  users,         \* the users table: the rows inserted, in order
  signups        \* the signup requests received: position and locals

vars == <<business, nextBiz, blobs, rpcInstalled, reqs, lastRemove, lastCall,
          users, signups>>

\* the requests received so far, in the order they came
Slots == DOMAIN reqs


\* ------------------------------------------------------------ strings
\* String.prototype.includes / SQL LIKE '%sub%' on a token sequence
Includes(str, sub) == \E i \in 1..Len(str) : str[i] = sub

\* Array.prototype.includes
ArrayIncludes(arr, x) == \E i \in 1..Len(arr) : arr[i] = x

\* number of occurrences of x in arr
Count(arr, x) == Cardinality({i \in 1..Len(arr) : arr[i] = x})

UuidTok(n) == "x" \o ToString(n)

\* uuidRegex.test(businessId): the ids the database generates are UUIDs
uuidRegexTest(id) == id # MalformedId /\ id # NoBusinessId

allowedTypes == {<<"image", "jpeg">>, <<"image", "png">>,
                 <<"image", "gif">>, <<"image", "webp">>}

\* `${userId}/${businessId}/${timestamp}-${uuidv4()}.${fileExtension}`
\* (the timestamp adds nothing to the uuid's freshness and is left out)
FileNameForBusiness(userId, businessId, uuid, ext) ==
  <<userId, businessId, UuidTok(uuid), ext>>

\* `${userId}/${uuidv4()}.${fileExtension}`
FileNameGeneral(userId, uuid, ext) == <<userId, UuidTok(uuid), ext>>

\* storage.from(bucket).getPublicUrl(path):
\* <project url>/storage/v1/object/public/<bucket>/<path>
GetPublicUrl(path) ==
  <<"https://project/storage/v1/object/public", BUSINESS_IMAGES_BUCKET>> \o path

\* ------------------------------------------------------------ errors
NoError == [code |-> "none", message |-> "none", type |-> "none"]

\* what multer hands to next(err) when a file exceeds limits.fileSize
MulterLimitError ==
  [code |-> "LIMIT_FILE_SIZE", message |-> "File too large", type |-> "none"]

FileFilterError ==
  [code |-> "none", message |-> "Only image files are allowed!", type |-> "none"]

\* reading .storage of an undefined property
TypeErrorUndefined ==
  [code |-> "none", message |-> "Cannot read properties of undefined",
   type |-> "none"]

NoResp == [status |-> 0, error |-> "none", storagePath |-> <<>>]

Resp(status, error) == [status |-> status, error |-> error, storagePath |-> <<>>]

\* ------------------------------------------------------------ middleware
\* fileFilter: cb(null, true) for image/*, cb(new Error(...)) otherwise
fileFilter(file) ==
  IF file.mimetype[1] = "image" THEN NoError ELSE FileFilterError

\* upload.single('image'): the filter runs when the file part starts, the
\* size limit trips while its bytes are read (more than fileSize bytes);
\* a request without a file part passes with req.file undefined
upload(file) ==
  IF ~file.present THEN NoError
  ELSE IF fileFilter(file) # NoError THEN fileFilter(file)
  ELSE IF file.size > fileSize THEN MulterLimitError
  ELSE NoError

\* app.use((err, req, res, next) => ...): where next(err) of a middleware ends
GlobalErrorHandler(err) ==
  IF err.type = "entity.too.large"
    THEN Resp(413, "Request entity too large")
    ELSE Resp(500, "Internal server error")

\* the catch block of uploadImageToBusiness
HandlerCatch(err) ==
  IF err.code = "LIMIT_FILE_SIZE"
    THEN Resp(413, "File size too large. Maximum size is 5MB.")
  ELSE IF err.message = "Only image files are allowed!"
    THEN Resp(400, "Only image files are allowed")
  ELSE Resp(500, "Internal server error during image upload")

\* the properties the SupabaseService constructor sets on the instance
ServiceProps == {"client", "adminClient", "BUSINESS_IMAGES_BUCKET", "_bucketChecked"}

\* ------------------------------------------------------------ record store
NullBusiness ==
  [id |-> "null", user_id |-> "null", name |-> <<>>, type |-> <<>>,
   images |-> <<>>, rating |-> 0, created_at |-> 0]

\* a field that is absent from req.body
Undefined == <<"undefined">>

\* the name and the type of the rows made without a word on their text
SomeText == <<"a">>

\* texts of req.body.name and req.body.type, as the characters that matter
\* to trim(): absent, empty, whitespace only, a word, a padded word
Texts == {Undefined, <<>>, <<" ">>, SomeText, <<" ", "a", " ">>}

\* String.prototype.trim
trim(text) ==
  LET kept == {i \in 1..Len(text) : text[i] # " "}
  IN IF kept = {} THEN <<>>
     ELSE SubSeq(text, CHOOSE i \in kept : \A j \in kept : i <= j,
                       CHOOSE i \in kept : \A j \in kept : i >= j)

\* !name: undefined and the empty string are falsy
Falsy(text) == text = Undefined \/ text = <<>>

\* CHECK (length(name) > 0) and CHECK (length(type) > 0), the column
\* constraints of the table as unnamed/part_000 creates it; the table of
\* sql/business.sql has NOT NULL alone
length_check(name, type) == Len(name) > 0 /\ Len(type) > 0

\* .from('business').select('*').eq('id', id).single(): a row, or the
\* error .single() reports when the query yields no row
getBusinessById(id) ==
  IF id \in DOMAIN business
    THEN [data |-> business[id], error |-> "none"]
    ELSE [data |-> NullBusiness, error |-> "PGRST116"]

\* validate_business_image_url(url): url LIKE '%business-images%' OR url = ''
validate_business_image_url(url) ==
  Includes(url, BUSINESS_IMAGES_BUCKET) \/ url = <<>>

\* mutant of add_image_to_business_images: the statement stores the new url
\* in place of the array
add_image_to_business_images_Overwrite(images, image_url) == <<image_url>>

\* SET images = COALESCE(images, '{}') || ARRAY[image_url]
add_image_to_business_images(images, image_url) == Append(images, image_url)

\* SET images = array_remove(images, image_url)
array_remove(images, image_url) ==
  SelectSeq(images, LAMBDA u : u # image_url)

\* the rpc add_image_to_business answers without error: the function is
\* deployed, the url is valid and the UPDATE found the row
RpcAddSucceeds(business_id, image_url) ==
  /\ rpcInstalled
  /\ validate_business_image_url(image_url)
  /\ business_id \in DOMAIN business

\* mutant of UrlFromBucket: any url passes
UrlFromBucket_AnyUrl(imageUrl) == TRUE

\* the check that opens addImageToBusiness
UrlFromBucket(imageUrl) == Includes(imageUrl, BUSINESS_IMAGES_BUCKET)

\* mutant of OwnsBusiness: the ownership comparison is dropped
OwnsBusiness_NoCheck(row, userId) == TRUE

\* business.user_id !== userId, negated
OwnsBusiness(row, userId) == row.user_id = userId


\* ------------------------------------------------------------ requests
\* A request's locals before the handler ran.  pc is the await it is suspended at; prior/after are
\* the images array its association read and the one it wrote (or found).
Idle ==
  [pc |-> "idle", route |-> "none", caller |-> "none", bid |-> "none",
   file |-> NoFile, uuid |-> 0, fileName |-> <<>>, url |-> <<>>,
   found |-> "n/a", owner |-> "none", putDone |-> FALSE,
   prior |-> <<>>, after |-> <<>>, wrote |-> FALSE, addOk |-> "n/a",
   shape |-> "none", cleanup |-> "none", cleanupPath |-> <<>>,
   resp |-> NoResp]

\* res.status(...).json(...): the request is over
Done(r, resp) == [r EXCEPT !.pc = "done", !.resp = resp]

\* uploadImageToBusiness up to its first await: the checks on req.file,
\* req.params.businessId and req.file.mimetype
UploadImageToBusinessEntry(r) ==
  IF ~r.file.present
    THEN Done(r, Resp(400, "No image file provided. Please select an image file to upload."))
  ELSE IF ~uuidRegexTest(r.bid)
    THEN Done(r, Resp(400, "Valid Business ID (UUID format) is required"))
  ELSE IF r.file.mimetype \notin allowedTypes
    THEN Done(r, Resp(400, "Invalid file type"))
  ELSE [r EXCEPT !.pc = "lookup"]

\* uploadImageToBusiness after getBusinessById: existence and ownership,
\* then the file name under which the bytes are stored
BusinessVerified(r, got, fileExtension) ==
  IF got.error # "none"
    THEN Done([r EXCEPT !.found = "no"], Resp(500, "Failed to verify business"))
  ELSE IF got.data = NullBusiness
    THEN Done([r EXCEPT !.found = "no"], Resp(404, "Business not found with ID"))
  ELSE IF ~OwnsBusiness(got.data, r.caller)
    THEN Done([r EXCEPT !.found = "yes", !.owner = got.data.user_id],
              Resp(403, "Permission denied: You can only upload images to your own businesses"))
  ELSE [r EXCEPT !.found = "yes", !.owner = got.data.user_id,
                 !.fileName = FileNameForBusiness(r.caller, r.bid, r.uuid, fileExtension),
                 !.pc = "put"]

\* uploadBusinessImage (the general route) up to its first await
UploadBusinessImageEntry(r, fileExtension) ==
  IF ~r.file.present
    THEN Done(r, Resp(400, "No image file provided"))
    ELSE [r EXCEPT !.fileName = FileNameGeneral(r.caller, r.uuid, fileExtension),
                   !.pc = "put"]

\* what the storage upload can answer
PutOutcomes == {"ok", "403", "413", "error"}

\* the response of either upload handler to a failed storage upload
StorageErrorResponse(r, outcome) ==
  IF outcome = "403"
    THEN Resp(403, "Storage access denied. Please check storage policies.")
  ELSE IF outcome = "413"
    THEN Resp(413, IF r.route = "business"
                     THEN "File too large for storage (max 5MB)"
                     ELSE "File too large for storage")
  ELSE Resp(400, IF r.route = "business"
                   THEN "Failed to upload image to storage"
                   ELSE "Failed to upload image: ")

\* mutant of UploadReturned: the error of the storage upload is ignored
UploadReturned_IgnoresError(r, outcome) ==
  IF r.route = "business"
    THEN [r EXCEPT !.putDone = (outcome = "ok"), !.url = r.fileName, !.pc = "add"]
  ELSE [r EXCEPT !.putDone = (outcome = "ok"), !.url = GetPublicUrl(r.fileName),
                 !.pc = "lookup"]

\* either handler after supabaseService.uploadBusinessImage returned:
\* uploadImageToBusiness associates data.path, uploadBusinessImage
\* associates data.publicUrl when a business_id came with the request
UploadReturned(r, outcome) ==
  IF outcome # "ok" THEN Done(r, StorageErrorResponse(r, outcome))
  ELSE IF r.route = "business"
    THEN IF r.fileName = <<>>
           THEN Done([r EXCEPT !.putDone = TRUE],
                     Resp(500, "Upload succeeded but no file path returned"))
           ELSE [r EXCEPT !.putDone = TRUE, !.url = r.fileName, !.pc = "add"]
  ELSE IF r.bid = NoBusinessId
    THEN Done([r EXCEPT !.putDone = TRUE, !.url = GetPublicUrl(r.fileName)],
              Resp(200, "none"))
  ELSE [r EXCEPT !.putDone = TRUE, !.url = GetPublicUrl(r.fileName),
                 !.pc = "lookup"]

\* uploadBusinessImage after getBusinessById: a failed lookup, a missing
\* row and a foreign owner are logged, and the response stays the success
GeneralLookedUp(r, got) ==
  IF got.error # "none" \/ got.data = NullBusiness
    THEN Done([r EXCEPT !.found = "no"], Resp(200, "none"))
  ELSE IF ~OwnsBusiness(got.data, r.caller)
    THEN Done([r EXCEPT !.found = "yes", !.owner = got.data.user_id],
              Resp(200, "none"))
  ELSE [r EXCEPT !.found = "yes", !.owner = got.data.user_id, !.pc = "add"]

\* uploadImageToBusiness once the association succeeded: the public url is
\* read through supabaseService.supabase, and what that throws lands in the
\* handler's catch block
AssociationSucceeded(r) ==
  IF "supabase" \in ServiceProps
    THEN Done(r, Resp(200, "none"))
    ELSE Done(r, HandlerCatch(TypeErrorUndefined))

\* mutant of AssociationFailed: the 500 is sent without the cleanup
AssociationFailed_NoCleanup(r) ==
  Done(r, [status |-> 500,
           error |-> "Image uploaded but failed to associate with business",
           storagePath |-> r.url])

\* uploadImageToBusiness once the association failed: the uploaded file is
\* cleaned up before the response
AssociationFailed(r) == [r EXCEPT !.pc = "cleanup"]

\* mutant of AddReturned: a write that was applied is reported as an error
AddReturned_ErrorAfterWrite(r, ok) ==
  LET q == [r EXCEPT !.addOk = IF ok /\ ~r.wrote THEN "ok" ELSE "error"]
  IN IF q.route = "business"
       THEN IF q.addOk = "ok" THEN AssociationSucceeded(q) ELSE AssociationFailed(q)
     ELSE IF q.route = "general"
       THEN Done(q, Resp(200, "none"))
     ELSE Done(q, NoResp)

\* the caller of addImageToBusiness resumes with { data, error }
AddReturned(r, ok) ==
  LET q == [r EXCEPT !.addOk = IF ok THEN "ok" ELSE "error"]
  IN IF q.route = "business"
       THEN IF ok THEN AssociationSucceeded(q) ELSE AssociationFailed(q)
     ELSE IF q.route = "general"
       THEN Done(q, Resp(200, "none"))
     ELSE Done(q, NoResp)

\* uploadImageToBusiness after deleteBusinessImage returned or failed
CleanedUp(r, deleted) ==
  Done([r EXCEPT !.cleanup = IF deleted THEN "deleted" ELSE "failed",
                 !.cleanupPath = r.url],
       [status |-> 500,
        error |-> "Image uploaded but failed to associate with business",
        storagePath |-> r.url])


\* ------------------------------------------------------------ actions
\* no removeImageFromBusiness call was made yet
NoRemove ==
  [caller |-> "none", bid |-> "none", url |-> <<>>, found |-> FALSE,
   before |-> <<>>, after |-> <<>>, via |-> "none", error |-> "n/a"]

\* no request to a business route was made yet
NoCall ==
  [op |-> "none", caller |-> "none", bid |-> "none", rating |-> NoRating,
   name |-> Undefined, type |-> Undefined,
   status |-> 0, error |-> "none", before |-> NullBusiness, report |-> <<>>,
   totalImages |-> 0, validImages |-> 0]

Init ==
  /\ business = [b \in {} |-> NullBusiness]
  /\ nextBiz = 0
  /\ blobs = {}
  /\ rpcInstalled \in BOOLEAN
  /\ reqs = <<>>
  /\ lastRemove = NoRemove
  /\ lastCall = NoCall
  /\ users = <<>>
  /\ signups = <<>>

\* a request arrives with locals r
Receive(r) ==
  /\ Len(reqs) < MaxReqs
  /\ reqs' = Append(reqs, [r EXCEPT !.uuid = Len(reqs) + 1])

\* createBusiness, reduced to the row it inserts: images: [], rating: 0.0
CreateBusiness(userId) ==
  /\ nextBiz < MaxBiz
  /\ nextBiz' = nextBiz + 1
  /\ business' = business @@
       (BizId(nextBiz + 1) :>
          [id |-> BizId(nextBiz + 1), user_id |-> userId, name |-> SomeText,
           type |-> SomeText, images |-> <<>>, rating |-> 0,
           created_at |-> nextBiz + 1])
  /\ UNCHANGED <<blobs, rpcInstalled, users, signups, reqs, lastRemove, lastCall>>

\* mutant of BucketAfterRowDelete: the objects under the business's folder
\* go with the row
BucketAfterRowDelete_Cascade(id) ==
  {p \in blobs : ~(Len(p) >= 2 /\ p[2] = id)}

\* supabaseService.deleteBusiness is one delete on the table and no storage
\* call: the bucket it leaves
BucketAfterRowDelete(id) == blobs

\* deleteBusiness by the owner of an existing row: the row goes, the bucket
\* is not touched
DeleteBusiness(userId, id) ==
  /\ getBusinessById(id).error = "none"
  /\ OwnsBusiness(getBusinessById(id).data, userId)
  /\ business' = [b \in DOMAIN business \ {id} |-> business[b]]
  /\ blobs' = BucketAfterRowDelete(id)
  /\ UNCHANGED <<nextBiz, rpcInstalled, users, signups, reqs, lastRemove, lastCall>>

\* POST /api/upload-image/business/:businessId arrives: multer, then the
\* handler up to its first await; an error of the middleware goes to the
\* global error handler and the handler never runs
StartUploadImageToBusiness(userId, businessId, file) ==
  /\ LET r == [Idle EXCEPT !.route = "business", !.caller = userId,
                           !.bid = businessId, !.file = file,
                           !.uuid = Len(reqs) + 1]
     IN Receive(IF upload(file) # NoError
                  THEN Done(r, GlobalErrorHandler(upload(file)))
                  ELSE UploadImageToBusinessEntry(r))
  /\ UNCHANGED <<business, nextBiz, blobs, rpcInstalled, users, signups, lastRemove, lastCall>>

\* POST /api/upload-image arrives, business_id optional
StartUploadBusinessImage(userId, business_id, file, fileExtension) ==
  /\ LET r == [Idle EXCEPT !.route = "general", !.caller = userId,
                           !.bid = business_id, !.file = file,
                           !.uuid = Len(reqs) + 1]
     IN Receive(IF upload(file) # NoError
                  THEN Done(r, GlobalErrorHandler(upload(file)))
                  ELSE UploadBusinessImageEntry(r, fileExtension))
  /\ UNCHANGED <<business, nextBiz, blobs, rpcInstalled, users, signups, lastRemove, lastCall>>

\* uploadImageToBusiness: await getBusinessById(businessId)
VerifyBusiness(s, fileExtension) ==
  /\ s \in Slots
  /\ reqs[s].pc = "lookup"
  /\ reqs[s].route = "business"
  /\ reqs' = [reqs EXCEPT ![s] = BusinessVerified(@, getBusinessById(@.bid), fileExtension)]
  /\ UNCHANGED <<business, nextBiz, blobs, rpcInstalled, users, signups, lastRemove, lastCall>>

\* uploadBusinessImage: await getBusinessById(business_id), after the upload
LookupForGeneral(s) ==
  /\ s \in Slots
  /\ reqs[s].pc = "lookup"
  /\ reqs[s].route = "general"
  /\ reqs' = [reqs EXCEPT ![s] = GeneralLookedUp(@, getBusinessById(@.bid))]
  /\ UNCHANGED <<business, nextBiz, blobs, rpcInstalled, users, signups, lastRemove, lastCall>>

\* await supabaseService.uploadBusinessImage(buffer, fileName): the bucket
\* stores the object or answers with an error
StorageUpload(s, outcome) ==
  /\ s \in Slots
  /\ reqs[s].pc = "put"
  /\ blobs' = IF outcome = "ok" THEN blobs \cup {reqs[s].fileName} ELSE blobs
  /\ reqs' = [reqs EXCEPT ![s] = UploadReturned(@, outcome)]
  /\ UNCHANGED <<business, nextBiz, rpcInstalled, users, signups, lastRemove, lastCall>>

\* addImageToBusiness up to the answer of the rpc: the bucket-name check,
\* then add_image_to_business as one statement of the database; any error
\* of the rpc sends the call to the manual update
AddImageRpc(s) ==
  /\ s \in Slots
  /\ reqs[s].pc = "add"
  /\ LET r == reqs[s]
     IN IF ~UrlFromBucket(r.url)
          THEN /\ reqs' = [reqs EXCEPT ![s] = AddReturned(r, FALSE)]
               /\ UNCHANGED business
        ELSE IF RpcAddSucceeds(r.bid, r.url)
          THEN /\ business' =
                    [business EXCEPT ![r.bid].images =
                       add_image_to_business_images(@, r.url)]
               /\ reqs' = [reqs EXCEPT ![s] =
                    AddReturned(
                      [r EXCEPT !.prior = business[r.bid].images,
                                !.after = business'[r.bid].images,
                                !.wrote = TRUE, !.shape = "rows"], TRUE)]
        ELSE /\ reqs' = [reqs EXCEPT ![s].pc = "fb_read"]
             /\ UNCHANGED business
  /\ UNCHANGED <<nextBiz, blobs, rpcInstalled, users, signups, lastRemove, lastCall>>

\* the images the manual update writes: the array read, with the url appended
updatedImages(currentImages, imageUrl) == Append(currentImages, imageUrl)

\* addImageToBusiness, manual update: await getBusinessById, then the
\* duplicate check on the array just read
AddImageFallbackRead(s) ==
  /\ s \in Slots
  /\ reqs[s].pc = "fb_read"
  /\ LET r == reqs[s]
         got == getBusinessById(r.bid)
     IN reqs' = [reqs EXCEPT ![s] =
          IF got.error # "none" \/ got.data = NullBusiness
            THEN AddReturned(r, FALSE)
          ELSE IF ArrayIncludes(got.data.images, r.url)
            THEN AddReturned([r EXCEPT !.prior = got.data.images,
                                       !.after = got.data.images,
                                       !.shape = "row"], TRUE)
          ELSE [r EXCEPT !.prior = got.data.images,
                         !.after = updatedImages(got.data.images, r.url),
                         !.pc = "fb_write"]]
  /\ UNCHANGED <<business, nextBiz, blobs, rpcInstalled, users, signups, lastRemove, lastCall>>

\* addImageToBusiness, manual update: await update({ images }).eq('id', id)
\* .select().single() with the array computed from the earlier read
AddImageFallbackWrite(s) ==
  /\ s \in Slots
  /\ reqs[s].pc = "fb_write"
  /\ LET r == reqs[s]
     IN IF r.bid \in DOMAIN business
          THEN /\ business' = [business EXCEPT ![r.bid].images = r.after]
               /\ reqs' = [reqs EXCEPT ![s] =
                    AddReturned([r EXCEPT !.wrote = TRUE, !.shape = "row"], TRUE)]
          ELSE /\ reqs' = [reqs EXCEPT ![s] = AddReturned(r, FALSE)]
               /\ UNCHANGED business
  /\ UNCHANGED <<nextBiz, blobs, rpcInstalled, users, signups, lastRemove, lastCall>>

\* uploadImageToBusiness: await deleteBusinessImage(data.path), which
\* returns its error instead of throwing, then the 500 response
CleanupUpload(s, deleted) ==
  /\ s \in Slots
  /\ reqs[s].pc = "cleanup"
  /\ blobs' = IF deleted THEN blobs \ {reqs[s].url} ELSE blobs
  /\ reqs' = [reqs EXCEPT ![s] = CleanedUp(@, deleted)]
  /\ UNCHANGED <<business, nextBiz, rpcInstalled, users, signups, lastRemove, lastCall>>

BusinessIdInputs == BizIds \cup {MalformedId}

GeneralIdInputs == BizIds \cup {NoBusinessId}

Next ==
  \/ \E u \in Users : CreateBusiness(u)
  \/ \E u \in Users, b \in BizIds : DeleteBusiness(u, b)
  \/ \E u \in Users, b \in BusinessIdInputs, f \in Files :
       StartUploadImageToBusiness(u, b, f)
  \/ \E u \in Users, b \in GeneralIdInputs, f \in Files, e \in Exts :
       StartUploadBusinessImage(u, b, f, e)
  \/ \E s \in 1..MaxReqs, e \in Exts : VerifyBusiness(s, e)
  \/ \E s \in 1..MaxReqs : LookupForGeneral(s)
  \/ \E s \in 1..MaxReqs, o \in PutOutcomes : StorageUpload(s, o)
  \/ \E s \in 1..MaxReqs : AddImageRpc(s)
  \/ \E s \in 1..MaxReqs : AddImageFallbackRead(s)
  \/ \E s \in 1..MaxReqs : AddImageFallbackWrite(s)
  \/ \E s \in 1..MaxReqs, d \in BOOLEAN : CleanupUpload(s, d)

Spec == Init /\ [][Next]_vars


\* ------------------------------------------------------------ service calls
\* The service functions called on their own, on rows that are created and
\* deleted meanwhile.  removeImageFromBusiness has no caller in the
\* repository: no route removes an image.

\* the urls direct calls pass: a public url of the bucket and a bare storage
\* path
SeedUrls == {GetPublicUrl(<<"u1", "x0", "jpg">>), <<"u1", "b1", "x0", "jpg">>}

\* addImageToBusiness(businessId, imageUrl) called directly
StartAddImage(businessId, imageUrl) ==
  /\ Receive([Idle EXCEPT !.route = "service", !.bid = businessId,
                          !.url = imageUrl, !.pc = "add"])
  /\ UNCHANGED <<business, nextBiz, blobs, rpcInstalled, users, signups, lastRemove, lastCall>>

\* currentImages.filter(url => url !== imageUrl)
filterImages(currentImages, imageUrl) ==
  SelectSeq(currentImages, LAMBDA url : url # imageUrl)

\* removeImageFromBusiness(businessId, imageUrl): { error, images written }.
\* The function takes no caller and checks no owner.  It calls .catch on the
\* query builder of the rpc: where the installed SDK's builder has no such
\* method (hasCatch false) that call throws before any query is sent; where
\* it has, the manual update runs only when the rpc promise is rejected, and
\* an rpc answered with an error is thrown on.
removeImageFromBusiness(businessId, imageUrl, hasCatch, rejected) ==
  IF ~hasCatch
    THEN [error |-> "TypeError", write |-> FALSE, images |-> <<>>, via |-> "none"]
  ELSE IF ~rejected
    THEN IF rpcInstalled /\ businessId \in DOMAIN business
           THEN [error |-> "none", write |-> TRUE, via |-> "rpc",
                 images |-> array_remove(business[businessId].images, imageUrl)]
           ELSE [error |-> "rpc", write |-> FALSE, images |-> <<>>, via |-> "rpc"]
  ELSE IF getBusinessById(businessId).error # "none"
    THEN [error |-> "Business not found", write |-> FALSE, images |-> <<>>,
          via |-> "manual"]
  ELSE [error |-> "none", write |-> TRUE, via |-> "manual",
        images |-> filterImages(getBusinessById(businessId).data.images, imageUrl)]

\* a removal made on behalf of caller
RemoveImage(caller, businessId, imageUrl, hasCatch, rejected) ==
  LET res == removeImageFromBusiness(businessId, imageUrl, hasCatch, rejected)
  IN /\ business' = IF res.write
                      THEN [business EXCEPT ![businessId].images = res.images]
                      ELSE business
     /\ lastRemove' = [caller |-> caller, bid |-> businessId, url |-> imageUrl,
                       found |-> businessId \in DOMAIN business,
                       before |-> getBusinessById(businessId).data.images,
                       after |-> IF res.write THEN res.images
                                 ELSE getBusinessById(businessId).data.images,
                       via |-> res.via,
                       error |-> res.error]
     /\ UNCHANGED <<nextBiz, blobs, rpcInstalled, users, signups, reqs, lastCall>>

SvcNext ==
  \/ \E u \in Users : CreateBusiness(u)
  \/ \E u \in Users, b \in BizIds : DeleteBusiness(u, b)
  \/ \E s \in 1..MaxReqs : AddImageRpc(s)
  \/ \E s \in 1..MaxReqs : AddImageFallbackRead(s)
  \/ \E s \in 1..MaxReqs : AddImageFallbackWrite(s)
  \/ \E b \in BizIds, u \in SeedUrls :
       StartAddImage(b, u)
  \/ \E c \in Users, b \in BizIds, u \in SeedUrls,
        h \in BOOLEAN, j \in BOOLEAN :
       RemoveImage(c, b, u, h, j)

SpecSvc == Init /\ [][SvcNext]_vars


\* ------------------------------------------------------------ bucket contents
\* Uploads of valid files to the business route, next to removals and
\* deletions of the rows they refer to.

\* a file that passes every check of the middleware and the handler
ValidFile ==
  [present |-> TRUE, mimetype |-> <<"image", "jpeg">>, size |-> fileSize]

\* removeImageFromBusiness called with the path an upload request generated
RemoveUploadedImage(caller, s, hasCatch, rejected) ==
  /\ s \in Slots
  /\ reqs[s].fileName # <<>>
  /\ RemoveImage(caller, reqs[s].bid, reqs[s].fileName, hasCatch, rejected)

BlobNext ==
  \/ \E u \in Users : CreateBusiness(u)
  \/ \E u \in Users, b \in BizIds : DeleteBusiness(u, b)
  \/ \E u \in Users, b \in BizIds : StartUploadImageToBusiness(u, b, ValidFile)
  \/ \E s \in 1..MaxReqs, e \in Exts : VerifyBusiness(s, e)
  \/ \E s \in 1..MaxReqs, o \in PutOutcomes : StorageUpload(s, o)
  \/ \E s \in 1..MaxReqs : AddImageRpc(s)
  \/ \E s \in 1..MaxReqs : AddImageFallbackRead(s)
  \/ \E s \in 1..MaxReqs : AddImageFallbackWrite(s)
  \/ \E s \in 1..MaxReqs, d \in BOOLEAN : CleanupUpload(s, d)
  \/ \E c \in Users, s \in 1..MaxReqs, h \in BOOLEAN, j \in BOOLEAN :
       RemoveUploadedImage(c, s, h, j)

SpecBlob == Init /\ [][BlobNext]_vars

\* ------------------------------------------------------------ business routes
\* The handlers behind /api/business, each taken as one step, on a table
\* that may hold a row written before the bucket-name check existed (the
\* images column takes any text: the schema's constraint is commented out).

\* null in place of a url
Null == <<"null">>

\* texts found in an images column: a public url of the bucket, a bare
\* storage path, the empty string
StoredTexts == SeedUrls \cup {<<>>}

MaxLegacyImages == 2

\* what the bucket holds at the start: nothing, or an object of an earlier
\* upload
LegacyBlobs == {{}, {<<"u1", "b1", "x0", "jpg">>}}

LegacyImages ==
  UNION {[1..n -> StoredTexts] : n \in 0..MaxLegacyImages}

\* mutant of isValid: any text that is not empty counts as valid
isValid_AnyText(imageUrl) ==
  IF imageUrl = <<>> THEN "" ELSE "true"

\* imageUrl && imageUrl.includes('business-images'): for the empty string
\* && yields the empty string itself, not false
isValid(imageUrl) ==
  IF imageUrl = <<>> THEN ""
  ELSE IF Includes(imageUrl, BUSINESS_IMAGES_BUCKET) THEN "true" ELSE "false"

\* what filter(img => img.isValid) and the ?: operator take for true
Truthy(v) == v = "true"

\* getBusinessImageUrl(filePath): reads this.supabase, a property the
\* service does not have; the TypeError is caught and null returned
getBusinessImageUrl(filePath) ==
  IF filePath = <<>> THEN Null
  ELSE IF "supabase" \in ServiceProps THEN GetPublicUrl(filePath)
  ELSE Null

\* one entry of validationResults
validationResult(imageUrl) ==
  [url |-> imageUrl,
   isValid |-> isValid(imageUrl),
   publicUrl |-> IF Truthy(isValid(imageUrl))
                   THEN getBusinessImageUrl(imageUrl) ELSE Null]

validationResults(images) ==
  [i \in 1..Len(images) |-> validationResult(images[i])]

\* validationResults.filter(img => img.isValid).length
validCount(results) ==
  Cardinality({i \in 1..Len(results) : Truthy(results[i].isValid)})

\* validateBusinessImages: the response
validateBusinessImages(businessId) ==
  LET got == getBusinessById(businessId)
  IN IF got.error # "none" \/ got.data = NullBusiness
       THEN [status |-> 404, error |-> "Business not found", images |-> <<>>,
             totalImages |-> 0, validImages |-> 0]
       ELSE [status |-> 200, error |-> "none",
             images |-> validationResults(got.data.images),
             totalImages |-> Len(got.data.images),
             validImages |-> validCount(validationResults(got.data.images))]

\* mutant of TableAfterValidate: the validation drops the entries it finds
\* invalid
TableAfterValidate_Repairs(businessId) ==
  IF businessId \in DOMAIN business
    THEN [business EXCEPT ![businessId].images =
            SelectSeq(@, LAMBDA u : Truthy(isValid(u)))]
    ELSE business

\* validateBusinessImages issues one select and no insert, update or
\* delete: the table it leaves
TableAfterValidate(businessId) == business

\* GET /api/business/validate-images/:businessId (no authentication)
ValidateBusinessImages(businessId) ==
  LET res == validateBusinessImages(businessId)
  IN /\ lastCall' = [NoCall EXCEPT !.op = "validate", !.bid = businessId,
                                   !.status = res.status, !.error = res.error,
                                   !.before = getBusinessById(businessId).data,
                                   !.report = res.images,
                                   !.totalImages = res.totalImages,
                                   !.validImages = res.validImages]
     /\ business' = TableAfterValidate(businessId)
     /\ UNCHANGED <<nextBiz, blobs, rpcInstalled, users, signups, reqs, lastRemove>>

\* mutant of RatingAccepted: the upper bound is not checked
RatingAccepted_NoUpperBound(rating) ==
  rating.type = "number" /\ rating.value >= 0

\* typeof rating !== 'number' || rating < 0 || rating > 5, negated
RatingAccepted(rating) ==
  rating.type = "number" /\ rating.value >= 0 /\ rating.value <= 50000

\* a value stored in the column rating NUMERIC(3,2): rounded to hundredths
Numeric32(v) == ((v + 50) \div 100) * 100

\* CHECK (rating >= 0.0 AND rating <= 5.0)
check_rating_range(v) == v >= 0 /\ v <= 50000

\* mutant of UpdatedRow: the update stamps the row anew
UpdatedRow_Restamps(row, updateData) ==
  [row EXCEPT !.name = updateData.name, !.type = updateData.type,
              !.rating = updateData.rating, !.created_at = 0]

\* .update(updateData).eq('id', id): the columns of updateData are written,
\* the others stay
UpdatedRow(row, updateData) ==
  [row EXCEPT !.name = updateData.name, !.type = updateData.type,
              !.rating = updateData.rating]

\* updateBusiness: the response and the columns the row is left with;
\* dbError is a failure of the update for a reason outside the request,
\* checked says that the table carries the length constraints
updateBusiness(userId, id, name, type, rating, dbError, checked) ==
  LET got == getBusinessById(id)
      updateData ==
        [name |-> IF name = Undefined THEN got.data.name ELSE trim(name),
         type |-> IF type = Undefined THEN got.data.type ELSE trim(type),
         rating |-> IF rating.type = "undefined" THEN got.data.rating
                    ELSE Numeric32(rating.value)]
  IN IF got.error # "none" \/ got.data = NullBusiness
       THEN [status |-> 404, error |-> "Business not found", write |-> FALSE,
             updateData |-> updateData]
     ELSE IF ~OwnsBusiness(got.data, userId)
       THEN [status |-> 403, error |-> "You can only update your own businesses",
             write |-> FALSE, updateData |-> updateData]
     ELSE IF rating.type # "undefined" /\ ~RatingAccepted(rating)
       THEN [status |-> 400, error |-> "Rating must be a number between 0 and 5",
             write |-> FALSE, updateData |-> updateData]
     ELSE IF \/ dbError
             \/ rating.type # "undefined"
                  /\ ~check_rating_range(Numeric32(rating.value))
             \/ checked /\ ~length_check(updateData.name, updateData.type)
       THEN [status |-> 400, error |-> "Failed to update business",
             write |-> FALSE, updateData |-> updateData]
     ELSE [status |-> 200, error |-> "none", write |-> TRUE,
           updateData |-> updateData]

\* PUT /api/business/:id
UpdateBusinessRequest(userId, id, name, type, rating, dbError, checked) ==
  LET res == updateBusiness(userId, id, name, type, rating, dbError, checked)
  IN /\ lastCall' = [NoCall EXCEPT !.op = "update", !.caller = userId,
                                   !.bid = id, !.rating = rating,
                                   !.name = name, !.type = type,
                                   !.status = res.status, !.error = res.error,
                                   !.before = getBusinessById(id).data]
     /\ business' = IF res.write
                      THEN [business EXCEPT ![id] = UpdatedRow(@, res.updateData)]
                      ELSE business
     /\ UNCHANGED <<nextBiz, blobs, rpcInstalled, users, signups, reqs, lastRemove>>

\* createBusiness: the response; the row is inserted with status 201
createBusiness(userId, name, type, checked) ==
  IF Falsy(name) \/ Falsy(type)
    THEN [status |-> 400, error |-> "Business name and type are required"]
  ELSE IF checked /\ ~length_check(trim(name), trim(type))
    THEN [status |-> 400, error |-> "Failed to create business"]
  ELSE [status |-> 201, error |-> "none"]

\* POST /api/business
CreateBusinessRequest(userId, name, type, checked) ==
  LET res == createBusiness(userId, name, type, checked)
  IN /\ nextBiz < MaxBiz
     /\ lastCall' = [NoCall EXCEPT !.op = "create", !.caller = userId,
                                   !.name = name, !.type = type,
                                   !.status = res.status, !.error = res.error]
     /\ IF res.status = 201
          THEN /\ nextBiz' = nextBiz + 1
               /\ business' = business @@
                    (BizId(nextBiz + 1) :>
                       [id |-> BizId(nextBiz + 1), user_id |-> userId,
                        name |-> trim(name), type |-> trim(type),
                        images |-> <<>>, rating |-> 0,
                        created_at |-> nextBiz + 1])
          ELSE UNCHANGED <<business, nextBiz>>
     /\ UNCHANGED <<blobs, rpcInstalled, users, signups, reqs, lastRemove>>

\* deleteBusiness: the response, and whether the row is deleted
deleteBusiness(userId, id, dbError) ==
  LET got == getBusinessById(id)
  IN IF got.error # "none" \/ got.data = NullBusiness
       THEN [status |-> 404, error |-> "Business not found", delete |-> FALSE]
     ELSE IF ~OwnsBusiness(got.data, userId)
       THEN [status |-> 403, error |-> "You can only delete your own businesses",
             delete |-> FALSE]
     ELSE IF dbError
       THEN [status |-> 400, error |-> "Failed to delete business", delete |-> FALSE]
     ELSE [status |-> 200, error |-> "none", delete |-> TRUE]

\* DELETE /api/business/:id
DeleteBusinessRequest(userId, id, dbError) ==
  LET res == deleteBusiness(userId, id, dbError)
  IN /\ lastCall' = [NoCall EXCEPT !.op = "delete", !.caller = userId,
                                   !.bid = id, !.status = res.status,
                                   !.error = res.error,
                                   !.before = getBusinessById(id).data]
     /\ business' = IF res.delete
                      THEN [b \in DOMAIN business \ {id} |-> business[b]]
                      ELSE business
     /\ blobs' = IF res.delete THEN BucketAfterRowDelete(id) ELSE blobs
     /\ UNCHANGED <<nextBiz, rpcInstalled, users, signups, reqs, lastRemove>>

\* the table at the start: empty, or one row that is already there
InitBiz ==
  /\ \/ /\ business = [b \in {} |-> NullBusiness]
        /\ nextBiz = 0
     \/ /\ \E u \in Users, imgs \in LegacyImages :
             business = (BizId(1) :>
               [id |-> BizId(1), user_id |-> u, name |-> SomeText,
                type |-> SomeText, images |-> imgs, rating |-> 0,
                created_at |-> 1])
        /\ nextBiz = 1
  /\ blobs \in LegacyBlobs
  /\ rpcInstalled \in BOOLEAN
  /\ reqs = <<>>
  /\ lastRemove = NoRemove
  /\ lastCall = NoCall
  /\ users = <<>>
  /\ signups = <<>>

BizNext ==
  \/ \E u \in Users : CreateBusiness(u)
  \/ \E u \in Users, b \in BusinessIdInputs, r \in Ratings, e \in BOOLEAN :
       UpdateBusinessRequest(u, b, Undefined, Undefined, r, e, FALSE)
  \/ \E u \in Users, b \in BusinessIdInputs, e \in BOOLEAN :
       DeleteBusinessRequest(u, b, e)
  \/ \E b \in BusinessIdInputs : ValidateBusinessImages(b)

SpecBiz == InitBiz /\ [][BizNext]_vars

\* the requests that write name and type
TextNext ==
  \/ \E u \in Users, n \in Texts, t \in Texts, c \in BOOLEAN :
       CreateBusinessRequest(u, n, t, c)
  \/ \E u \in Users, b \in BusinessIdInputs, n \in Texts, t \in Texts,
        c \in BOOLEAN :
       UpdateBusinessRequest(u, b, n, t, NoRating, FALSE, c)

SpecText == Init /\ [][TextNext]_vars

\* updates next to the service calls that write the images of a row
RowNext ==
  \/ \E u \in Users : CreateBusiness(u)
  \/ \E u \in Users, b \in BizIds, n \in {Undefined, <<" ", "a", " ">>},
        r \in {NoRating, [type |-> "number", value |-> 49951]} :
       UpdateBusinessRequest(u, b, n, Undefined, r, FALSE, FALSE)
  \/ \E s \in 1..MaxReqs : AddImageRpc(s)
  \/ \E s \in 1..MaxReqs : AddImageFallbackRead(s)
  \/ \E s \in 1..MaxReqs : AddImageFallbackWrite(s)
  \/ \E b \in BizIds, u \in SeedUrls : StartAddImage(b, u)
  \/ \E c \in Users, b \in BizIds, u \in SeedUrls,
        h \in BOOLEAN, j \in BOOLEAN :
       RemoveImage(c, b, u, h, j)

SpecRow == Init /\ [][RowNext]_vars

\* the requests and calls that could write the images of a row, and the
\* validation that reads them, on a table that starts empty
ImagesNext ==
  \/ \E u \in Users : CreateBusiness(u)
  \/ \E u \in Users, b \in BizIds,
        r \in {NoRating, [type |-> "number", value |-> 49951]} :
       UpdateBusinessRequest(u, b, Undefined, Undefined, r, FALSE, FALSE)
  \/ \E b \in BizIds, u \in SeedUrls : StartAddImage(b, u)
  \/ \E s \in 1..MaxReqs : AddImageRpc(s)
  \/ \E s \in 1..MaxReqs : AddImageFallbackRead(s)
  \/ \E s \in 1..MaxReqs : AddImageFallbackWrite(s)
  \/ \E b \in BusinessIdInputs : ValidateBusinessImages(b)

SpecImages == Init /\ [][ImagesNext]_vars

\* ------------------------------------------------------------ one after another
\* The test sequence on one business: two uploads, the second started when
\* the first was answered, then a removal of the first upload's path, then
\* validations.

\* the next upload of the sequence, of a valid file
SeqUpload(userId, businessId) ==
  /\ \A s \in Slots : reqs[s].pc = "done"
  /\ Len(reqs) < 2
  /\ lastRemove = NoRemove
  /\ StartUploadImageToBusiness(userId, businessId, ValidFile)

\* the removal of the path of the first upload, once both were answered
SeqRemove(caller, hasCatch, rejected) ==
  /\ Len(reqs) = 2
  /\ \A s \in Slots : reqs[s].pc = "done"
  /\ lastRemove = NoRemove
  /\ RemoveUploadedImage(caller, 1, hasCatch, rejected)

\* a validation after the removal
SeqValidate(businessId) ==
  /\ lastRemove # NoRemove
  /\ ValidateBusinessImages(businessId)

SeqNext ==
  \/ \E u \in Users : CreateBusiness(u)
  \/ \E u \in Users, b \in BizIds : SeqUpload(u, b)
  \/ \E s \in 1..MaxReqs, e \in Exts : VerifyBusiness(s, e)
  \/ \E s \in 1..MaxReqs, o \in PutOutcomes : StorageUpload(s, o)
  \/ \E s \in 1..MaxReqs : AddImageRpc(s)
  \/ \E s \in 1..MaxReqs : AddImageFallbackRead(s)
  \/ \E s \in 1..MaxReqs : AddImageFallbackWrite(s)
  \/ \E s \in 1..MaxReqs, d \in BOOLEAN : CleanupUpload(s, d)
  \/ \E c \in Users, h \in BOOLEAN, j \in BOOLEAN : SeqRemove(c, h, j)
  \/ \E b \in BizIds : SeqValidate(b)

SpecSeq == Init /\ [][SeqNext]_vars

\* ------------------------------------------------------------ accounts
\* POST /api/users/signup.  An email is its text in lower case and trimmed
\* (name), whether the text as sent has upper-case letters, and whether it
\* has surrounding whitespace.

\* signup requests received in a run
MaxSignups == 2

Emails ==
  {[name |-> n, upper |-> u, padded |-> w] :
     n \in {"a@x.io", "b@x.io"}, u \in BOOLEAN, w \in BOOLEAN}

\* password.length of the requests: one below the minimum and the minimum
PasswordLengths == {5, 6}

\* emailRegex.test(email): /^[^\s@]+@[^\s@]+\.[^\s@]+$/ takes no whitespace
emailRegexTest(email) == ~email.padded

\* email.toLowerCase().trim()
toLowerCaseTrim(email) == [email EXCEPT !.upper = FALSE, !.padded = FALSE]

\* getUserByEmail(email): .eq('email', email) compares the text as sent
getUserByEmail(email) == \E i \in 1..Len(users) : users[i].email = email

\* email TEXT UNIQUE NOT NULL: the insert of a second row with the same
\* text is refused
UniqueEmail(email) == \A i \in 1..Len(users) : users[i].email # email

\* an account exists for the address, however it is written
HasAccount(email) ==
  \E i \in 1..Len(users) : users[i].email = toLowerCaseTrim(email)

\* signup up to its first await: the checks on req.body
SignupEntry(email, passwordLength) ==
  IF passwordLength < 6
    THEN [pc |-> "done", status |-> 400,
          error |-> "Password must be at least 6 characters long"]
  ELSE IF ~emailRegexTest(email)
    THEN [pc |-> "done", status |-> 400,
          error |-> "Please provide a valid email address"]
  ELSE [pc |-> "lookup", status |-> 0, error |-> "none"]

\* POST /api/users/signup arrives
StartSignup(email, passwordLength) ==
  /\ Len(signups) < MaxSignups
  /\ LET e == SignupEntry(email, passwordLength)
     IN signups' = Append(signups,
          [email |-> email, pc |-> e.pc, status |-> e.status, error |-> e.error,
           existed |-> HasAccount(email), created |-> FALSE])
  /\ UNCHANGED <<business, nextBiz, blobs, rpcInstalled, reqs, lastRemove,
                 lastCall, users>>

\* signup: await getUserByEmail(email)
SignupLookup(s) ==
  /\ s \in DOMAIN signups
  /\ signups[s].pc = "lookup"
  /\ signups' = [signups EXCEPT ![s] =
       IF getUserByEmail(@.email)
         THEN [@ EXCEPT !.pc = "done", !.status = 409,
                        !.error = "User with this email already exists"]
         ELSE [@ EXCEPT !.pc = "insert"]]
  /\ UNCHANGED <<business, nextBiz, blobs, rpcInstalled, reqs, lastRemove,
                 lastCall, users>>

\* signup: after the password hash, await createUser with the email in
\* lower case and trimmed; an error of the insert is answered 400
SignupInsert(s) ==
  /\ s \in DOMAIN signups
  /\ signups[s].pc = "insert"
  /\ LET email == toLowerCaseTrim(signups[s].email)
     IN IF UniqueEmail(email)
          THEN /\ users' = Append(users, [id |-> Len(users) + 1, email |-> email])
               /\ signups' = [signups EXCEPT ![s].pc = "done", ![s].status = 201,
                                             ![s].created = TRUE]
          ELSE /\ users' = users
               /\ signups' = [signups EXCEPT ![s].pc = "done", ![s].status = 400,
                                             ![s].error = "Failed to create user account"]
  /\ UNCHANGED <<business, nextBiz, blobs, rpcInstalled, reqs, lastRemove,
                 lastCall>>

UserNext ==
  \/ \E e \in Emails, n \in PasswordLengths : StartSignup(e, n)
  \/ \E s \in 1..MaxSignups : SignupLookup(s)
  \/ \E s \in 1..MaxSignups : SignupInsert(s)

SpecUsers == Init /\ [][UserNext]_vars

\* ------------------------------------------------------------ claims
UploadRoutes == {"business", "general"}

\* C1: every uploadImageToBusiness request that passed validation (file,
\* business id, mime type, size, existing business, caller is the owner)
\* and whose put succeeded, on a business that still exists, has written the
\* record's images as the images it found with the new storage path appended
\* at the end, the path occurring exactly once.
C1_ValidUploadAppendsPath ==
  \A s \in Slots :
    LET r == reqs[s]
    IN (r.route = "business" /\ r.pc = "done" /\ r.putDone
          /\ r.bid \in DOMAIN business)
         => /\ r.wrote
            /\ r.after = Append(r.prior, r.fileName)
            /\ Count(r.after, r.fileName) = 1

\* C2: uploadImageToBusiness is all-or-nothing: a finished request either
\* answered 200 with the blob stored and the path written to the record, or
\* answered an error and never wrote the record's images.
C2_AllOrNothing ==
  \A s \in Slots :
    LET r == reqs[s]
    IN (r.route = "business" /\ r.pc = "done")
         => \/ r.resp.status = 200 /\ r.putDone /\ r.wrote /\ r.cleanup = "none"
            \/ r.resp.status # 200 /\ ~r.wrote

\* C3: an uploadImageToBusiness request whose caller is not the user_id of
\* the business it looked up is answered 403 at once, and no request of a
\* caller who does not own the target business puts a blob or writes the
\* record.
C3_NonOwnerForbidden ==
  \A s \in Slots :
    LET r == reqs[s]
    IN /\ (r.route = "business" /\ r.found = "yes" /\ r.owner # r.caller)
            => /\ r.pc = "done"
               /\ r.resp.status = 403
               /\ ~r.putDone /\ ~r.wrote /\ r.addOk = "n/a"
               /\ r.fileName \notin blobs
       /\ (r.route = "business" /\ r.bid \in DOMAIN business
             /\ business[r.bid].user_id # r.caller)
            => ~r.putDone /\ ~r.wrote

\* C3 witness: a non-owner's request got past validation and was refused.
C3_Witness ==
  \E s \in Slots :
    /\ reqs[s].route = "business"
    /\ reqs[s].found = "yes"
    /\ reqs[s].owner # reqs[s].caller
    /\ reqs[s].resp.status = 403

\* C4: the general upload route, given the business_id of a business the
\* caller does not own, answers Forbidden and stores no blob.
C4_GeneralRouteForbidsNonOwner ==
  \A s \in Slots :
    LET r == reqs[s]
    IN (r.route = "general" /\ r.pc = "done" /\ r.found = "yes"
          /\ r.owner # r.caller)
         => /\ r.resp.status = 403
            /\ ~r.putDone
            /\ r.fileName \notin blobs

\* C5: a removal made on behalf of a caller who is not the owner of the
\* business is refused (the call does not return a success) and leaves the
\* record's images as they were.
C5_RemovalChecksOwner ==
  (/\ lastRemove.error # "n/a"
   /\ lastRemove.bid \in DOMAIN business
   /\ business[lastRemove.bid].user_id # lastRemove.caller)
    => /\ lastRemove.error # "none"
       /\ business[lastRemove.bid].images = lastRemove.before

\* C6: addImageToBusiness with a url the record's images already holds
\* returns the record unchanged under either strategy, so no url occurs
\* twice in any record's images.
C6_DuplicatesSuppressed ==
  /\ \A s \in Slots :
       LET r == reqs[s]
       IN (r.pc = "done" /\ r.addOk = "ok" /\ ArrayIncludes(r.prior, r.url))
            => r.after = r.prior
  /\ \A b \in DOMAIN business :
       \A i, j \in 1..Len(business[b].images) :
         i # j => business[b].images[i] # business[b].images[j]

\* C7: uploadImageToBusiness with a well-formed business id for which no
\* record exists answers 404 and puts no blob.
C7_MissingBusiness404 ==
  \A s \in Slots :
    LET r == reqs[s]
    IN (r.route = "business" /\ r.pc = "done" /\ r.found = "no")
         => r.resp.status = 404 /\ ~r.putDone

\* C8: an image file of exactly 5*1024*1024 bytes is not refused for its
\* size, and one of 5*1024*1024 + 1 bytes is answered 413 with neither
\* store modified.
C8_SizeBoundary ==
  \A s \in Slots :
    LET r == reqs[s]
    IN (r.route \in UploadRoutes /\ r.bid # MalformedId /\ r.file.present
          /\ r.file.mimetype[1] = "image")
         => /\ r.file.size = 5 * 1024 * 1024
                 => ~(r.pc = "done" /\ r.found = "n/a" /\ ~r.putDone
                        /\ r.resp.status \in {413, 500})
            /\ r.file.size = 5 * 1024 * 1024 + 1
                 => /\ r.pc = "done"
                    /\ r.resp.status = 413
                    /\ ~r.putDone /\ ~r.wrote

\* C9: an upload to the business route whose mime type is none of
\* image/jpeg, image/png, image/gif, image/webp (the file within the size
\* limit) is answered 400 with neither store modified.
C9_InvalidTypeIs400 ==
  \A s \in Slots :
    LET r == reqs[s]
    IN (r.route = "business" /\ r.bid # MalformedId /\ r.file.present
          /\ r.file.size <= 5 * 1024 * 1024
          /\ r.file.mimetype \notin
               {<<"image", "jpeg">>, <<"image", "png">>,
                <<"image", "gif">>, <<"image", "webp">>})
         => /\ r.pc = "done"
            /\ r.resp.status = 400
            /\ ~r.putDone /\ ~r.wrote

\* C10: in uploadImageToBusiness, once addImageToBusiness failed after a
\* successful put, no response is sent before a delete of exactly the path
\* just written was attempted, and the response is the 500 of the failed
\* association whether the delete succeeded or failed.
C10_CleanupBeforeFailureResponse ==
  \A s \in Slots :
    LET r == reqs[s]
    IN (r.route = "business" /\ r.putDone /\ r.addOk = "error")
         => /\ r.pc \in {"cleanup", "done"}
            /\ r.resp.status # 0 => r.cleanup # "none"
            /\ r.cleanup # "none" => r.cleanupPath = r.fileName
            /\ r.cleanup = "deleted" => r.fileName \notin blobs
            /\ r.pc = "done"
                 => /\ r.resp.status = 500
                    /\ r.resp.error = "Image uploaded but failed to associate with business"

\* C10 witness: the association failed after the put, the delete failed too,
\* and the caller got the 500 of the association.
C10_Witness ==
  \E s \in Slots :
    /\ reqs[s].route = "business"
    /\ reqs[s].pc = "done"
    /\ reqs[s].putDone
    /\ reqs[s].addOk = "error"
    /\ reqs[s].cleanup = "failed"
    /\ reqs[s].fileName \in blobs
    /\ reqs[s].resp.status = 500

\* C11: a path whose association was reported failed after its blob was
\* written is an element of no record's images, in this and every later
\* state, whatever other requests did to the same business meanwhile.
C11_FailedPathNeverReferenced ==
  \A s \in Slots :
    LET r == reqs[s]
    IN (r.route \in UploadRoutes /\ r.putDone /\ r.addOk = "error")
         => \A b \in DOMAIN business :
              /\ ~ArrayIncludes(business[b].images, r.url)
              /\ ~ArrayIncludes(business[b].images, r.fileName)

\* C11 witness: one request's association failed and its cleanup is over,
\* while another request's path was written to the same business.
C11_Witness ==
  \E s, t \in Slots :
    /\ s # t
    /\ reqs[s].route = "business" /\ reqs[s].putDone
    /\ reqs[s].addOk = "error" /\ reqs[s].pc = "done"
    /\ reqs[t].route = "business" /\ reqs[t].bid = reqs[s].bid
    /\ reqs[t].wrote
    /\ reqs[s].bid \in DOMAIN business
    /\ ArrayIncludes(business[reqs[s].bid].images, reqs[t].url)

\* C12: every element of every record's images is a path that a successful
\* put of some request wrote, lying under the record's namespace (owner id,
\* business id); and on both upload routes a request's append is issued only
\* after its put succeeded.
C12_ImagesAreStoredPaths ==
  /\ \A b \in DOMAIN business :
       \A i \in 1..Len(business[b].images) :
         LET p == business[b].images[i]
         IN /\ \E s \in Slots : reqs[s].putDone /\ reqs[s].fileName = p
            /\ Len(p) >= 2
            /\ p[1] = business[b].user_id
            /\ p[2] = b
  /\ \A s \in Slots :
       (reqs[s].route \in UploadRoutes
          /\ (reqs[s].pc \in {"add", "fb_read", "fb_write"} \/ reqs[s].addOk # "n/a"))
         => reqs[s].putDone

\* C13: an uploadImageToBusiness request whose put failed is answered with
\* an error; addImageToBusiness was never called for it and it wrote
\* nothing to the record, nor is its path in the bucket.
C13_PutFailureWritesNothing ==
  \A s \in Slots :
    LET r == reqs[s]
    IN /\ (r.route = "business" /\ r.fileName # <<>> /\ r.pc # "put" /\ ~r.putDone)
            => /\ r.pc = "done"
               /\ r.resp.status \in {400, 403, 413, 500}
               /\ r.addOk = "n/a" /\ ~r.wrote /\ r.url = <<>>
               /\ r.fileName \notin blobs
               /\ \A b \in DOMAIN business :
                    ~ArrayIncludes(business[b].images, r.fileName)
       /\ (r.route = "business" /\ r.pc \in {"add", "fb_read", "fb_write", "cleanup"})
            => r.putDone

\* C13 witness: the put of a validated request of the owner failed and the
\* request was answered with the storage error.
C13_Witness ==
  \E s \in Slots :
    /\ reqs[s].route = "business"
    /\ reqs[s].found = "yes" /\ reqs[s].owner = reqs[s].caller
    /\ reqs[s].fileName # <<>>
    /\ reqs[s].pc = "done" /\ ~reqs[s].putDone
    /\ reqs[s].resp.status = 400
    /\ reqs[s].resp.error = "Failed to upload image to storage"

\* C14: for an existing business the report of validateBusinessImages has
\* one entry per element of images, in order; an entry's isValid is true
\* iff its path is not empty and contains the marker business-images;
\* totalImages is the length of images and validImages the number of
\* entries whose isValid is true.
C14_ValidationReport ==
  (lastCall.op = "validate" /\ lastCall.before # NullBusiness)
    => LET images == lastCall.before.images
           report == lastCall.report
       IN /\ lastCall.status = 200
          /\ Len(report) = Len(images)
          /\ \A i \in 1..Len(images) :
               /\ report[i].url = images[i]
               /\ (report[i].isValid = "true")
                    <=> (images[i] # <<>>
                         /\ \E k \in 1..Len(images[i]) :
                              images[i][k] = "business-images")
          /\ lastCall.totalImages = Len(images)
          /\ lastCall.validImages =
               Cardinality({i \in 1..Len(report) : report[i].isValid = "true"})

\* C14 witness: a report on two images, one valid and one not.
C14_Witness ==
  /\ lastCall.op = "validate" /\ lastCall.status = 200
  /\ lastCall.totalImages = 2 /\ lastCall.validImages = 1
  /\ lastCall.report[1].isValid = "false"
  /\ lastCall.report[2].isValid = "true"

\* C15: in the report an entry's publicUrl is the bucket's public url of
\* its path when the entry is valid, and null exactly when it is not valid.
C15_PublicUrlWhenValid ==
  lastCall.op = "validate"
    => \A i \in 1..Len(lastCall.report) :
         LET e == lastCall.report[i]
         IN /\ e.isValid = "true" => e.publicUrl = GetPublicUrl(e.url)
            /\ (e.publicUrl = <<"null">>) <=> (e.isValid # "true")

\* C16: a step of validateBusinessImages, whatever its input and its
\* outcome, leaves the business table and the bucket as they were.
C16_ValidateIsReadOnly ==
  [][(lastCall' # lastCall /\ lastCall'.op = "validate")
       => (business' = business /\ blobs' = blobs)]_vars

\* C16 witness: a validation that found an invalid entry answered 200 and
\* the entry is still in the record.
C16_Witness ==
  /\ lastCall.op = "validate" /\ lastCall.status = 200
  /\ lastCall.bid \in DOMAIN business
  /\ lastCall.validImages < lastCall.totalImages
  /\ business[lastCall.bid].images = lastCall.before.images
  /\ blobs # {}

\* C17: after a successful removeImageFromBusiness(b, p) the images of b are
\* the prior images without any occurrence of p, the others in their order;
\* a removal of a p that is not in the images of an existing business
\* succeeds and leaves the record unchanged, so that a second removal gives
\* what the first gave; under the rpc and under the manual update alike.
C17_RemovalFiltersAndIsIdempotent ==
  (lastRemove.error # "n/a" /\ lastRemove.found)
    => LET p == lastRemove.url
           Without(images) == SelectSeq(images, LAMBDA u : u # p)
       IN /\ lastRemove.error = "none"
               => /\ lastRemove.after = Without(lastRemove.before)
                  /\ Without(lastRemove.after) = lastRemove.after
          /\ (\A i \in 1..Len(lastRemove.before) : lastRemove.before[i] # p)
               => /\ lastRemove.error = "none"
                  /\ lastRemove.after = lastRemove.before

\* C18: a step of removeImageFromBusiness and a step that deletes a
\* business row leave the bucket as it was, blobs the record refers to
\* included; the only step that takes a blob out of the bucket is the
\* compensating delete of uploadImageToBusiness, and it takes out the path
\* the request had just written.
C18_OnlyCleanupDeletesBlobs ==
  [][/\ lastRemove' # lastRemove => blobs' = blobs
     /\ (\E b \in DOMAIN business : b \notin DOMAIN business') => blobs' = blobs
     /\ (\E p \in blobs : p \notin blobs')
          => \E s \in Slots :
               /\ reqs[s].route = "business" /\ reqs[s].pc = "cleanup"
               /\ reqs'[s].pc = "done"
               /\ blobs' = blobs \ {reqs[s].fileName}]_vars

\* C18 witness: the row is deleted, and a blob that the record referred to
\* is still in the bucket.
C18_Witness ==
  /\ nextBiz = 1 /\ DOMAIN business = {}
  /\ \E s \in Slots :
       /\ reqs[s].wrote
       /\ reqs[s].fileName \in blobs

\* C19: updateBusiness by the owner of an existing business answers a
\* rating below 0 or above 5 (5.0001 for one) with 400 and leaves the
\* record as it was, and does not refuse the bounds 0 and 5; and the rating
\* of every stored record, 0 at creation, is within [0, 5] in every state.
\* Ratings are counted in ten-thousandths.
C19_RatingWithinRange ==
  /\ [](\A b \in DOMAIN business :
          business[b].rating >= 0 /\ business[b].rating <= 50000)
  /\ []((lastCall.op = "update" /\ lastCall.before # NullBusiness
           /\ lastCall.before.user_id = lastCall.caller
           /\ lastCall.rating.type = "number")
          => /\ (lastCall.rating.value < 0 \/ lastCall.rating.value > 50000)
                  => lastCall.status = 400
             /\ lastCall.rating.value \in {0, 50000}
                  => lastCall.error # "Rating must be a number between 0 and 5")
  /\ [][(lastCall' # lastCall /\ lastCall'.op = "update"
            /\ lastCall'.rating.type = "number"
            /\ (lastCall'.rating.value < 0 \/ lastCall'.rating.value > 50000))
           => business' = business]_vars

\* C19 witness: the owner set the rating to 5, and the next update, to
\* 5.0001, was answered 400 with the rating still 5.
C19_Witness ==
  /\ lastCall.op = "update" /\ lastCall.status = 400
  /\ lastCall.rating = [type |-> "number", value |-> 50001]
  /\ lastCall.before.user_id = lastCall.caller
  /\ lastCall.before.rating = 50000
  /\ lastCall.bid \in DOMAIN business
  /\ business[lastCall.bid].rating = 50000

\* C20: updateBusiness and deleteBusiness called by a user who is not the
\* user_id of the record answer 403 and leave the record unchanged and
\* present; called on a record that does not exist they answer 404.
C20_OwnerOnlyMutation ==
  /\ []((lastCall.op \in {"update", "delete"})
          => /\ lastCall.before = NullBusiness => lastCall.status = 404
             /\ (lastCall.before # NullBusiness
                   /\ lastCall.before.user_id # lastCall.caller)
                  => lastCall.status = 403)
  /\ [][(lastCall' # lastCall /\ lastCall'.op \in {"update", "delete"}
            /\ (lastCall'.bid \notin DOMAIN business
                   \/ business[lastCall'.bid].user_id # lastCall'.caller))
           => business' = business]_vars

\* C20 witness: a delete by a user who does not own the business was
\* answered 403 and the row is still there, as it was.
C20_Witness ==
  /\ lastCall.op = "delete" /\ lastCall.status = 403
  /\ lastCall.before # NullBusiness
  /\ lastCall.before.user_id # lastCall.caller
  /\ lastCall.bid \in DOMAIN business
  /\ business[lastCall.bid] = lastCall.before

\* C21: on one business, by its owner, from empty images: once two uploads
\* of valid .jpg files, made one after the other, have put their blobs, both
\* were answered 200, images is <<pathA, pathB>> in upload order and both
\* blobs exist; once pathA was then removed images is <<pathB>>; and a
\* validation after that reports totalImages 1 and validImages 1.
C21_UploadUploadRemoveValidate ==
  (/\ Len(reqs) = 2
   /\ \A s \in {1, 2} :
        /\ reqs[s].route = "business" /\ reqs[s].pc = "done"
        /\ reqs[s].bid = reqs[1].bid
        /\ reqs[s].found = "yes" /\ reqs[s].owner = reqs[s].caller
        /\ reqs[s].putDone
        /\ reqs[s].fileName[4] = "jpg"
   /\ reqs[1].bid \in DOMAIN business)
    => LET images == business[reqs[1].bid].images
           pathA == reqs[1].fileName
           pathB == reqs[2].fileName
       IN /\ lastRemove = NoRemove
               => /\ reqs[1].resp.status = 200 /\ reqs[2].resp.status = 200
                  /\ images = <<pathA, pathB>>
                  /\ {pathA, pathB} \subseteq blobs
          /\ (lastRemove # NoRemove /\ lastRemove.caller = reqs[1].owner
                 /\ lastCall = NoCall)
               => images = <<pathB>>
          /\ (lastRemove # NoRemove /\ lastRemove.caller = reqs[1].owner
                 /\ lastCall.op = "validate")
               => lastCall.totalImages = 1 /\ lastCall.validImages = 1

\* C22: no error response of uploadImageToBusiness carries the storage path
\* the request generated.
C22_NoStoragePathInErrors ==
  \A s \in Slots :
    LET r == reqs[s]
    IN (r.route = "business" /\ r.pc = "done" /\ r.resp.status # 200
          /\ r.fileName # <<>>)
         => r.resp.storagePath # r.fileName

\* C23: a signup with a well-formed email and password for an address that
\* already has an account, however the address is written, is answered 409
\* and creates no user; of two signups for the same address, also when they
\* run at the same time, at most one creates a user and the other is
\* answered 409; and no two stored users share an email.
C23_DuplicateSignupIs409 ==
  /\ \A s \in DOMAIN signups :
       (signups[s].existed /\ signups[s].pc = "done"
          /\ signups[s].error \notin
               {"Password must be at least 6 characters long",
                "Please provide a valid email address"})
         => signups[s].status = 409 /\ ~signups[s].created
  /\ \A s, t \in DOMAIN signups :
       (s # t /\ signups[s].pc = "done" /\ signups[t].pc = "done"
          /\ signups[s].created
          /\ signups[t].email.name = signups[s].email.name
          /\ signups[t].error \notin
               {"Password must be at least 6 characters long",
                "Please provide a valid email address"})
         => signups[t].status = 409 /\ ~signups[t].created
  /\ \A i, j \in 1..Len(users) :
       i # j => users[i].email.name # users[j].email.name

\* C24: with the add_image_to_business function deployed no append is lost:
\* every upload request whose association succeeded has its path in the
\* images of its business, as long as the row exists (no removal runs).
C24_RpcLosesNoUpdate ==
  rpcInstalled =>
    \A s \in Slots :
      (reqs[s].addOk = "ok" /\ reqs[s].bid \in DOMAIN business)
        => ArrayIncludes(business[reqs[s].bid].images, reqs[s].url)

\* two requests to the business route on one business were both associated
\* through the rpc and both paths are stored
C24_Witness ==
  /\ rpcInstalled
  /\ Len(reqs) = 2
  /\ \A s \in Slots :
       /\ reqs[s].route = "business"
       /\ reqs[s].addOk = "ok"
       /\ reqs[s].shape = "rows"
  /\ reqs[1].bid = reqs[2].bid
  /\ reqs[1].bid \in DOMAIN business
  /\ reqs[1].url # reqs[2].url
  /\ reqs[2].prior = <<>>
  /\ Len(business[reqs[1].bid].images) = 2

\* C25: the manual update can lose an append.  Two calls for one business
\* with distinct urls that both returned success while the stored images
\* lack the url of one: it happens, and only without the rpc, with both
\* calls on the manual update and the overwriting call having read the
\* array before the other wrote.
LostUpdate(s, t) ==
  /\ s # t
  /\ reqs[s].addOk = "ok" /\ reqs[t].addOk = "ok"
  /\ reqs[s].bid = reqs[t].bid
  /\ reqs[s].bid \in DOMAIN business
  /\ reqs[s].url # reqs[t].url
  /\ ~ArrayIncludes(business[reqs[s].bid].images, reqs[s].url)
  /\ ArrayIncludes(business[reqs[s].bid].images, reqs[t].url)

C25_LostUpdateOnlyInFallback ==
  \A s, t \in Slots :
    LostUpdate(s, t) =>
      /\ ~rpcInstalled
      /\ reqs[s].shape = "row" /\ reqs[t].shape = "row"
      /\ reqs[s].wrote /\ reqs[t].wrote
      /\ ~ArrayIncludes(reqs[t].prior, reqs[s].url)

\* the lost update: both calls returned success, one url is stored
C25_Witness ==
  \E s, t \in Slots :
    /\ LostUpdate(s, t)
    /\ reqs[s].pc = "done" /\ reqs[t].pc = "done"
    /\ Len(business[reqs[s].bid].images) = 1

\* C26: a call of addImageToBusiness that returned success stored its url
\* once, and the data it returned is the updated record whether the rpc or
\* the manual update ran.
C26_SameRecordEitherStrategy ==
  \A s \in Slots :
    reqs[s].addOk = "ok" =>
      /\ reqs[s].bid \in DOMAIN business =>
           Len(SelectSeq(business[reqs[s].bid].images,
                         LAMBDA u : u = reqs[s].url)) <= 1
      /\ reqs[s].shape = "row"

\* C27: no step of updateBusiness, addImageToBusiness (rpc or manual
\* update) or removeImageFromBusiness changes the id, the user_id or the
\* created_at of a row that exists.
C27_IdOwnerCreatedAtKept ==
  [][\A b \in DOMAIN business \cap DOMAIN business' :
       /\ business'[b].id = business[b].id
       /\ business'[b].user_id = business[b].user_id
       /\ business'[b].created_at = business[b].created_at]_vars

\* a row that an update, an append and a removal have written
C27_Witness ==
  /\ lastCall.op = "update" /\ lastCall.status = 200
  /\ lastCall.name # Undefined /\ lastCall.rating # NoRating
  /\ lastRemove.error = "none" /\ lastRemove.before # lastRemove.after
  /\ \E s \in Slots : reqs[s].wrote /\ reqs[s].bid = lastCall.bid
  /\ lastCall.bid \in DOMAIN business
  /\ business[lastCall.bid].id = lastCall.bid
  /\ business[lastCall.bid].created_at = 1
  /\ business[lastCall.bid].name = SomeText
  /\ business[lastCall.bid].rating = 50000

\* C28: every stored row has a name and a type that are not empty, and a
\* createBusiness or updateBusiness request whose name or type is empty or
\* whitespace only is answered with an error and leaves the table as it was.
C28_NameAndTypeNotEmpty ==
  /\ [](\A b \in DOMAIN business :
          Len(business[b].name) > 0 /\ Len(business[b].type) > 0)
  /\ [][(/\ lastCall' # lastCall
          /\ lastCall'.op \in {"create", "update"}
          /\ \/ lastCall'.name # Undefined /\ trim(lastCall'.name) = <<>>
             \/ lastCall'.type # Undefined /\ trim(lastCall'.type) = <<>>)
         => lastCall'.status >= 400 /\ business' = business]_vars

C30_DeletedRowStaysDeleted ==
  /\ [][\A s \in Slots :
         (/\ reqs[s].route = "business"
          /\ reqs[s].pc \in {"add", "fb_read", "fb_write", "cleanup"}
          /\ reqs[s].bid \notin DOMAIN business
          /\ reqs'[s] # reqs[s])
         => /\ reqs[s].bid \notin DOMAIN business'
            /\ reqs'[s].addOk # "ok"
            /\ reqs'[s].pc \in {"fb_read", "cleanup", "done"}]_vars
  /\ [](\A s \in Slots :
         (/\ reqs[s].route = "business" /\ reqs[s].pc = "done"
          /\ reqs[s].addOk = "error")
         => /\ reqs[s].resp.status = 500
            /\ reqs[s].cleanup \in {"deleted", "failed"}
            /\ reqs[s].cleanupPath = reqs[s].url)

\* an upload that verified its business, stored a file whose path the
\* association accepts, and failed to associate because the row was gone
C30_Witness ==
  \E s \in Slots :
    /\ reqs[s].route = "business" /\ reqs[s].pc = "done"
    /\ reqs[s].found = "yes" /\ reqs[s].owner = reqs[s].caller
    /\ reqs[s].putDone
    /\ UrlFromBucket(reqs[s].url)
    /\ reqs[s].addOk = "error"
    /\ reqs[s].resp.status = 500
    /\ reqs[s].cleanup = "deleted"
    /\ reqs[s].url \notin blobs
    /\ reqs[s].bid \notin DOMAIN business

====
